---- MODULE Spec2Model ----
(***************************************************************************)
(* Model of src/save.cpp: the checkpoint sweep driver.  main() loops over  *)
(* the checkpoint indices 1000, 2000, ..., 47000; for each index it        *)
(* rewrites the TensorFlow "checkpoint" pointer file and then runs the     *)
(* evaluator with system().                                                *)
(*                                                                         *)
(* Strings are TLC strings, so the bytes the program writes are compared   *)
(* as bytes.  The pointer file is modelled by its contents on disk (disk)  *)
(* and by the state of the fstream object (file).                          *)
(***************************************************************************)
EXTENDS Integers, Sequences, FiniteSets, TLC

VARIABLES
    pc,         \* position of main(): the statement about to be executed
    i,          \* the loop variable of line 13
    file,       \* the fstream of line 11: [open, good, buf]
    disk,       \* contents of the pointer file on disk
    cmd,        \* the string cmd of line 25
    a,          \* the int a of line 27: the last result of system()
    alive,      \* indices whose child process is running
    cout,       \* the lines printed on standard output, as numbers
    ret,        \* <<>> while main() runs, <<status>> once it has returned
    stop,       \* the stop request recorded by the SIGINT handler
    strict,     \* the failure policy asked of this run (no statement reads it)
    visited,    \* history: indices for which the loop body was entered
    launched,   \* history: indices for which system() was called
    ev,         \* history: the last of the events write/launch/exit and its index
    nIO,        \* history: number of failed operations on the pointer file
    ioFailed,   \* history: open or write of the pointer file failed in some iteration
    childFailed,\* history: some child failed to launch or exited nonzero
    intrChild,  \* history: SIGINT reached the driver while a child was running
    prevLonger  \* history: the last truncation removed more bytes than lines 17-22 write

vars == <<pc, i, file, disk, cmd, a, alive, cout, ret, stop, strict,
          visited, launched, ev, nIO, ioFailed, childFailed, intrChild, prevLonger>>

(***************************************************************************)
(* Program constants (line 13) and the bound of the model.                 *)
(***************************************************************************)
Start == 1000
Step == 1000
End == 47000

MaxIOFailures == 2

(***************************************************************************)
(* Decimal rendering.                                                      *)
(***************************************************************************)
Digit(d) ==
    CASE d = 0 -> "0" [] d = 1 -> "1" [] d = 2 -> "2" [] d = 3 -> "3"
      [] d = 4 -> "4" [] d = 5 -> "5" [] d = 6 -> "6" [] d = 7 -> "7"
      [] d = 8 -> "8" [] d = 9 -> "9"

\* std::to_string(int): the "%d" rendering, most significant digit first.
RECURSIVE to_string(_)
to_string(n) ==
    IF n < 0 THEN "-" \o to_string(0 - n)
    ELSE IF n < 10 THEN Digit(n)
    ELSE to_string(n \div 10) \o Digit(n % 10)

\* ostream << int with the default flags (dec, no showpos, no width) in the
\* classic locale: digits are produced least significant first and
\* prepended to what has been produced so far.
RECURSIVE PutDigits(_, _)
PutDigits(n, acc) ==
    IF n < 10 THEN Digit(n) \o acc
    ELSE PutDigits(n \div 10, Digit(n % 10) \o acc)

InsertInt(n) ==
    IF n < 0 THEN "-" \o PutDigits(0 - n, "") ELSE PutDigits(n, "")

(***************************************************************************)
(* The six insertions of lines 17-22, in order.                            *)
(***************************************************************************)
Tokens(n) ==
    << "model_checkpoint_path: \"episode_",
       InsertInt(n),
       "\" \n",
       "all_model_checkpoint_paths: \"episode_",
       InsertInt(n),
       "\"" >>

RECURSIVE Concat(_, _)
Concat(toks, k) ==
    IF k = 0 THEN "" ELSE Concat(toks, k - 1) \o toks[k]

\* What the stream buffer holds after lines 17-22 on a good stream.
PointerText(n) == Concat(Tokens(n), Len(Tokens(n)))

\* What reaches the disk when the flush fails after k insertions' bytes.
PartialText(n, k) == Concat(Tokens(n), k)

\* Truncate of a file opened without ios::trunc: the old bytes stay.
Truncate_none(d) == d

\* Line 15, ios::out | ios::trunc: a successful open empties the file.
Truncate(d) == ""

\* Line 23: the flush of close() appends the buffered bytes to the file.
Flush(d, bytes) == d \o bytes

\* Lines 15-23 on a stream that stays good, as one function of the old
\* contents d of the file and the index n.
Rewrite(d, n) == Flush(Truncate(d), PointerText(n))

\* Cmd with the index zero-padded.
Cmd_padded(n) ==
    "python main.py --env BreakoutNoFrameskip-v4 --save " \o "0" \o to_string(n)

\* The command string of line 25.
Cmd(n) == "python main.py --env BreakoutNoFrameskip-v4 --save " \o to_string(n)

\* LoopCond with an exclusive upper end.
LoopCond_exclusive(n) == n < End

\* Incr that steps downwards.
Incr_down(n) == n - Step

\* The loop condition and the increment of line 13.
LoopCond(n) == n <= End
Incr(n) == n + Step

\* Results of system(): -1 when no child could be created, otherwise the
\* wait status of the shell (exit code e is reported as e * 256).
LaunchFailed == 0 - 1
ExitStatuses == {0, 256}

(***************************************************************************)
(* The state after line 11 and the initialisation of the loop variable.    *)
(* The pointer file may be absent/empty or left by an earlier sweep.       *)
(***************************************************************************)
NoEvent == [kind |-> "none", idx |-> 0]

Init ==
    /\ pc = "for"
    /\ i = Start
    /\ file = [open |-> FALSE, good |-> TRUE, buf |-> ""]
    /\ disk \in {"", PointerText(End)}
    /\ cmd = ""
    /\ a = 0
    /\ alive = {}
    /\ cout = <<>>
    /\ ret = <<>>
    /\ stop = FALSE
    /\ strict \in BOOLEAN
    /\ visited = <<>>
    /\ launched = <<>>
    /\ ev = NoEvent
    /\ nIO = 0
    /\ ioFailed = FALSE
    /\ childFailed = FALSE
    /\ intrChild = FALSE
    /\ prevLonger = FALSE

\* ForTest of a loop that tests after the body: the first test is skipped.
ForTest_bodyFirst ==
    /\ pc = "for"
    /\ IF LoopCond(i) \/ visited = <<>>
         THEN pc' = "open" /\ visited' = Append(visited, i)
         ELSE pc' = "return" /\ UNCHANGED visited
    /\ UNCHANGED <<prevLonger, i, file, disk, cmd, a, alive, cout, ret, stop, strict,
                   launched, ev, nIO, ioFailed, childFailed, intrChild>>

\* Return with the last result of system() as the status of main().
Return_lastStatus ==
    /\ pc = "return"
    /\ ret' = <<a>>
    /\ pc' = "done"
    /\ UNCHANGED <<prevLonger, i, file, disk, cmd, a, alive, cout, stop, strict,
                   visited, launched, ev, nIO, ioFailed, childFailed, intrChild>>

\* Line 13: the test of the for loop.
ForTest ==
    /\ pc = "for"
    /\ IF LoopCond(i)
         THEN pc' = "open" /\ visited' = Append(visited, i)
         ELSE pc' = "return" /\ UNCHANGED visited
    /\ UNCHANGED <<prevLonger, i, file, disk, cmd, a, alive, cout, ret, stop, strict,
                   launched, ev, nIO, ioFailed, childFailed, intrChild>>

\* Line 15: file.open(path, ios::out | ios::trunc).  On success the file is
\* truncated and the stream state is cleared; on failure (the directory
\* ./log/<run-id>/weights is missing or not writable) failbit is set and
\* the file on disk is untouched.  The result is not tested.
Open ==
    /\ pc = "open"
    /\ \/ /\ file' = [open |-> TRUE, good |-> TRUE, buf |-> ""]
          /\ disk' = Truncate(disk)
          /\ prevLonger' = (Len(disk) > Len(PointerText(i)))
          /\ UNCHANGED <<nIO, ioFailed>>
       \/ /\ nIO < MaxIOFailures
          /\ file' = [file EXCEPT !.good = FALSE]
          /\ nIO' = nIO + 1
          /\ ioFailed' = TRUE
          /\ UNCHANGED <<disk, prevLonger>>
    /\ pc' = "write"
    /\ UNCHANGED <<i, cmd, a, alive, cout, ret, stop, strict,
                   visited, launched, ev, childFailed, intrChild>>

\* Lines 17-22: six insertions; each is a no-op on a stream that is not good.
Write ==
    /\ pc = "write"
    /\ file' = IF file.good
                 THEN [file EXCEPT !.buf = @ \o PointerText(i)]
                 ELSE file
    /\ pc' = "close"
    /\ UNCHANGED <<prevLonger, i, disk, cmd, a, alive, cout, ret, stop, strict,
                   visited, launched, ev, nIO, ioFailed, childFailed, intrChild>>

\* Close without the close: the buffer is not flushed and the file stays open.
Close_missing ==
    /\ pc = "close"
    /\ ev' = [kind |-> "write", idx |-> i]
    /\ pc' = "cmd"
    /\ UNCHANGED <<prevLonger, i, file, disk, cmd, a, alive, cout, ret, stop, strict,
                   visited, launched, nIO, ioFailed, childFailed, intrChild>>

\* Line 23: file.close() flushes the buffer and closes the file.  A failed
\* flush leaves on disk the bytes of only the first k insertions; close()
\* of a stream that is not open sets failbit.  The result is not tested.
Close ==
    /\ pc = "close"
    /\ IF file.open
         THEN \/ /\ disk' = Flush(disk, file.buf)
                 /\ file' = [open |-> FALSE, good |-> file.good, buf |-> ""]
                 /\ UNCHANGED <<nIO, ioFailed>>
              \/ /\ nIO < MaxIOFailures
                 /\ \E k \in 0 .. (Len(Tokens(i)) - 1) :
                        disk' = Flush(disk, PartialText(i, k))
                 /\ file' = [open |-> FALSE, good |-> FALSE, buf |-> ""]
                 /\ nIO' = nIO + 1
                 /\ ioFailed' = TRUE
         ELSE /\ file' = [file EXCEPT !.good = FALSE]
              /\ UNCHANGED <<disk, nIO, ioFailed>>
    /\ ev' = [kind |-> "write", idx |-> i]
    /\ pc' = "cmd"
    /\ UNCHANGED <<prevLonger, i, cmd, a, alive, cout, ret, stop, strict,
                   visited, launched, childFailed, intrChild>>

\* Line 25: string cmd = "python main.py ... --save " + to_string(i).
BuildCmd ==
    /\ pc = "cmd"
    /\ cmd' = Cmd(i)
    /\ pc' = "system"
    /\ UNCHANGED <<prevLonger, i, file, disk, a, alive, cout, ret, stop, strict,
                   visited, launched, ev, nIO, ioFailed, childFailed, intrChild>>

\* System that starts the child in the background and does not wait for it.
System_nowait ==
    /\ pc = "system"
    /\ launched' = Append(launched, i)
    /\ alive' = alive \cup {i}
    /\ ev' = [kind |-> "launch", idx |-> i]
    /\ a' = 0
    /\ pc' = "cout"
    /\ UNCHANGED <<prevLonger, i, file, disk, cmd, cout, ret, stop, strict,
                   visited, nIO, ioFailed, childFailed, intrChild>>

\* Line 27, the call: system(cmd.c_str()) creates the child and waits for
\* it, or returns -1 when no child could be created.
System ==
    /\ pc = "system"
    /\ launched' = Append(launched, i)
    /\ \/ /\ alive' = alive \cup {i}
          /\ ev' = [kind |-> "launch", idx |-> i]
          /\ pc' = "wait"
          /\ UNCHANGED <<a, childFailed>>
       \/ /\ a' = LaunchFailed
          /\ childFailed' = TRUE
          /\ pc' = "cout"
          /\ UNCHANGED <<alive, ev>>
    /\ UNCHANGED <<prevLonger, i, file, disk, cmd, cout, ret, stop, strict,
                   visited, nIO, ioFailed, intrChild>>

\* ChildExit that leaves the loop when the child's status is not zero.
ChildExit_abort ==
    /\ pc = "wait"
    /\ \E s \in ExitStatuses :
          /\ a' = s
          /\ childFailed' = (childFailed \/ s # 0)
          /\ pc' = IF s # 0 THEN "return" ELSE "cout"
    /\ alive' = alive \ {i}
    /\ ev' = [kind |-> "exit", idx |-> i]
    /\ UNCHANGED <<prevLonger, i, file, disk, cmd, cout, ret, stop, strict,
                   visited, launched, nIO, ioFailed, intrChild>>

\* Line 27, the return: the child terminates and its status is stored in a,
\* which no later statement reads.
ChildExit ==
    /\ pc = "wait"
    /\ \E s \in ExitStatuses :
          /\ a' = s
          /\ childFailed' = (childFailed \/ s # 0)
    /\ alive' = alive \ {i}
    /\ ev' = [kind |-> "exit", idx |-> i]
    /\ pc' = "cout"
    /\ UNCHANGED <<prevLonger, i, file, disk, cmd, cout, ret, stop, strict,
                   visited, launched, nIO, ioFailed, intrChild>>

\* Cout that prints the index after the increment.
Cout_next ==
    /\ pc = "cout"
    /\ cout' = Append(cout, Incr(i))
    /\ i' = Incr(i)
    /\ pc' = "for"
    /\ UNCHANGED <<prevLonger, file, disk, cmd, a, alive, ret, stop, strict,
                   visited, launched, ev, nIO, ioFailed, childFailed, intrChild>>

\* Cout that skips the index after a child that failed.
Cout_skipOnFailure ==
    /\ pc = "cout"
    /\ cout' = Append(cout, i)
    /\ i' = IF a # 0 THEN Incr(Incr(i)) ELSE Incr(i)
    /\ pc' = "for"
    /\ UNCHANGED <<prevLonger, file, disk, cmd, a, alive, ret, stop, strict,
                   visited, launched, ev, nIO, ioFailed, childFailed, intrChild>>

\* Line 29 and the increment of line 13: cout << i << endl; i += 1000.
Cout ==
    /\ pc = "cout"
    /\ cout' = Append(cout, i)
    /\ i' = Incr(i)
    /\ pc' = "for"
    /\ UNCHANGED <<prevLonger, file, disk, cmd, a, alive, ret, stop, strict,
                   visited, launched, ev, nIO, ioFailed, childFailed, intrChild>>

\* Line 33: return 0.
Return ==
    /\ pc = "return"
    /\ ret' = <<0>>
    /\ pc' = "done"
    /\ UNCHANGED <<prevLonger, i, file, disk, cmd, a, alive, cout, stop, strict,
                   visited, launched, ev, nIO, ioFailed, childFailed, intrChild>>

\* Line 10: signal(SIGINT, sigint).  The handler sigint is not defined in
\* the source; it records the stop request.  No statement of main() reads
\* the stop request.
sigint ==
    /\ pc \notin {"wait", "done"}
    /\ stop' = TRUE
    /\ UNCHANGED <<prevLonger, pc, i, file, disk, cmd, a, alive, cout, ret, strict,
                   visited, launched, ev, nIO, ioFailed, childFailed, intrChild>>

\* SIGINT while system() waits for the child (line 27): system() ignores
\* SIGINT in the caller until the child has terminated, so the handler
\* does not run; the child gets the signal from the terminal.
SigintDuringSystem ==
    /\ pc = "wait"
    /\ intrChild' = TRUE
    /\ UNCHANGED <<prevLonger, pc, i, file, disk, cmd, a, alive, cout, ret, stop, strict,
                   visited, launched, ev, nIO, ioFailed, childFailed>>

Next ==
    \/ ForTest
    \/ Open
    \/ Write
    \/ Close
    \/ BuildCmd
    \/ System
    \/ ChildExit
    \/ Cout
    \/ Return
    \/ sigint
    \/ SigintDuringSystem

Spec == Init /\ [][Next]_vars

\* The statements of main(), and main() under a scheduler that lets it run;
\* ChildExit apart: the termination of the child is the child's own.
MainStep ==
    ForTest \/ Open \/ Write \/ Close \/ BuildCmd \/ System \/ Cout \/ Return

\* main() keeps running and every child terminates.
FairSpec == Spec /\ WF_vars(MainStep) /\ WF_vars(ChildExit)

\* The loop of line 13 with its first index set to another value: the
\* program's own, the last index, or the first index past the end (an empty
\* sweep).  This is the driver re-built with a different start index.
StartIndices == {Start, End, Incr(End)}

InitRange ==
    /\ pc = "for"
    /\ i \in StartIndices
    /\ file = [open |-> FALSE, good |-> TRUE, buf |-> ""]
    /\ disk \in {"", PointerText(End)}
    /\ cmd = ""
    /\ a = 0
    /\ alive = {}
    /\ cout = <<>>
    /\ ret = <<>>
    /\ stop = FALSE
    /\ strict \in BOOLEAN
    /\ visited = <<>>
    /\ launched = <<>>
    /\ ev = NoEvent
    /\ nIO = 0
    /\ ioFailed = FALSE
    /\ childFailed = FALSE
    /\ intrChild = FALSE
    /\ prevLonger = FALSE

SpecRange == InitRange /\ [][Next]_vars

TypeOK ==
    /\ pc \in {"for", "open", "write", "close", "cmd", "system", "wait",
               "cout", "return", "done"}
    /\ i \in Start .. Incr(End)
    /\ file.open \in BOOLEAN /\ file.good \in BOOLEAN
    /\ alive \subseteq Start .. End
    /\ nIO \in 0 .. MaxIOFailures

(***************************************************************************)
(* The sequence of indices of the sweep.                                   *)
(***************************************************************************)
NumIndices == (End - Start) \div Step + 1
IndexAt(k) == Start + (k - 1) * Step
IsSweepPrefix(sq) ==
    /\ Len(sq) <= NumIndices
    /\ \A k \in 1 .. Len(sq) : sq[k] = IndexAt(k)

\* The text of the pointer file as the specification gives it.
SpecText(n) ==
    "model_checkpoint_path: \"episode_" \o InsertInt(n) \o "\"\n"
    \o "all_model_checkpoint_paths: \"episode_" \o InsertInt(n) \o "\""

\* d names index n: both lines carry episode_<n>, whatever the white space
\* at the ends of the lines.
NamesIndex(d, n) ==
    \E sp \in {"", " "}, nl \in {"", "\n"} :
        d = "model_checkpoint_path: \"episode_" \o InsertInt(n) \o "\"" \o sp
            \o "\n" \o "all_model_checkpoint_paths: \"episode_"
            \o InsertInt(n) \o "\"" \o nl

C2_PointerNamesLaunched ==
    \A k \in alive : NamesIndex(disk, k)

(***************************************************************************)
(* C3.  Immediately before each launch the pointer file holds, byte for    *)
(* byte, the two lines of the specification: no space before the newline   *)
(* of line 1 and no newline after line 2.                                  *)
(***************************************************************************)
C3_ByteExact ==
    pc = "system" => disk = SpecText(i)

(***************************************************************************)
(* C4.  The loop body is entered for exactly the indices Start,            *)
(* Start+Step, ..., in ascending order, each once; when main() has         *)
(* returned these are the 47 indices 1000, 2000, ..., 47000.               *)
(***************************************************************************)
C4_VisitsSweep ==
    /\ IsSweepPrefix(visited)
    /\ (pc \in {"open", "write", "close", "cmd", "system", "wait", "cout"}
           => Len(visited) > 0 /\ visited[Len(visited)] = i)
    /\ (pc = "done" =>
           /\ Len(visited) = 47
           /\ visited[1] = 1000
           /\ visited[47] = 47000
           /\ \A k \in 1 .. 46 : visited[k + 1] = visited[k] + 1000)

C4_Witness ==
    pc = "done" /\ Len(visited) = 47 /\ visited[47] = 47000

(***************************************************************************)
(* C5.  At most one child is alive at any instant, and none is alive when  *)
(* system() is called.                                                     *)
(***************************************************************************)
C5_OneChild ==
    /\ Cardinality(alive) <= 1
    /\ (pc # "wait" => alive = {})

\* The second child is running.
C5_Witness ==
    alive = {Incr(Start)} /\ launched = <<Start, Incr(Start)>>

(***************************************************************************)
(* C6.  Once SIGINT has reached the driver while a child was running, that *)
(* child runs to completion, no further child is launched, and main()      *)
(* returns a nonzero status.                                               *)
(***************************************************************************)
C6_InterruptStops ==
    /\ [][intrChild => launched' = launched]_vars
    /\ [](intrChild /\ pc = "done" => ret # <<0>>)

(***************************************************************************)
(* C7.  Once opening or writing the pointer file has failed, no child is   *)
(* launched: neither the child of that index nor any later one.            *)
(***************************************************************************)
C7_WriteFailureAborts ==
    [][ioFailed => launched' = launched]_vars

(***************************************************************************)
(* C8.  When the strict policy was not asked for, a child that cannot be   *)
(* created or exits nonzero does not end the sweep: its status is in a,    *)
(* the loop goes on with the next index, and when main() has returned      *)
(* system() has been called for every index of the sweep.                  *)
(***************************************************************************)
C8_ContinueOnFailure ==
    /\ [](~strict => IsSweepPrefix(launched))
    /\ [](~strict /\ pc = "done" => Len(launched) = NumIndices)
    /\ [](~strict /\ pc = "cout" /\ childFailed /\ launched = <<Start>>
             => a # 0)
    /\ [][~strict /\ pc = "cout" /\ a # 0 /\ pc' # pc
             => pc' = "for" /\ i' = i + Step]_vars

\* main() has returned after a sweep in which the last child failed.
C8_Witness ==
    /\ ~strict /\ childFailed /\ pc = "done"
    /\ Len(launched) = NumIndices
    /\ a # 0

(***************************************************************************)
(* C9.  When the strict policy was asked for, the first child that cannot  *)
(* be created or exits nonzero ends the sweep: no later child is launched  *)
(* and main() returns a nonzero status.                                    *)
(***************************************************************************)
C9_StrictAborts ==
    /\ [][strict /\ childFailed => launched' = launched]_vars
    /\ [](strict /\ childFailed /\ pc = "done" => ret # <<0>>)

(***************************************************************************)
(* C10.  A running child was started with the arguments                    *)
(* --env BreakoutNoFrameskip-v4 --save <i>, <i> being the unpadded decimal *)
(* rendering of the loop index, the same rendering that the insertions of  *)
(* this iteration put into the pointer file.                               *)
(***************************************************************************)
C10_ChildArgs ==
    \A k \in alive :
        LET r == InsertInt(k) IN
        /\ k = i
        /\ cmd = "python main.py --env BreakoutNoFrameskip-v4 --save " \o r
        /\ (k = 1000 =>
              cmd = "python main.py --env BreakoutNoFrameskip-v4 --save 1000")
        /\ (k = 47000 =>
              cmd = "python main.py --env BreakoutNoFrameskip-v4 --save 47000")
        /\ (file.good =>
              disk = "model_checkpoint_path: \"episode_" \o r \o "\" \n"
                     \o "all_model_checkpoint_paths: \"episode_" \o r \o "\"")

\* The child of the last index is running after a pointer write that succeeded.
C10_Witness ==
    /\ alive = {End}
    /\ file.good
    /\ cmd = "python main.py --env BreakoutNoFrameskip-v4 --save 47000"

(***************************************************************************)
(* C11.  In a run whose first index is past the end (an empty sweep) no    *)
(* child is ever launched and the pointer file is never opened, truncated  *)
(* or written: main() goes from the loop test straight to its return.      *)
(***************************************************************************)
FirstIndex == IF visited = <<>> THEN i ELSE visited[1]

C11_EmptySweep ==
    /\ [](FirstIndex > End =>
             /\ pc \in {"for", "return", "done"}
             /\ visited = <<>> /\ launched = <<>> /\ alive = {}
             /\ cout = <<>> /\ cmd = ""
             /\ ev = NoEvent
             /\ ~file.open /\ file.good /\ file.buf = ""
             /\ ~ioFailed /\ ~prevLonger
             /\ disk \in {"", PointerText(End)})
    /\ [][FirstIndex > End => disk' = disk /\ file' = file]_vars

\* main() has returned from an empty sweep with the old pointer file in place.
C11_Witness ==
    /\ pc = "done" /\ visited = <<>> /\ i > End
    /\ launched = <<>>
    /\ disk = PointerText(End)

(***************************************************************************)
(* C12.  When main() has returned, its status is 0 exactly when the loop   *)
(* body was entered for every index of the sweep; a sweep that ended       *)
(* early has a nonzero status.                                             *)
(***************************************************************************)
C12_ExitStatus ==
    pc = "done" =>
        /\ Len(ret) = 1
        /\ (ret[1] = 0 <=>
               /\ Len(visited) = NumIndices
               /\ \A k \in 1 .. NumIndices : visited[k] = IndexAt(k)
               /\ Len(cout) = NumIndices)

\* main() has returned 0 after a full sweep whose last child failed after
\* an interrupt.
C12_Witness ==
    /\ pc = "done" /\ ret = <<0>>
    /\ Len(visited) = NumIndices
    /\ a # 0 /\ intrChild

(***************************************************************************)
(* C13.  The sequence of launched indices is a function of the position of *)
(* main() alone: at the same position any two runs have launched the same  *)
(* indices in the same order, whatever the children returned and whatever  *)
(* the pointer file held; when main() has returned it is the whole sweep.  *)
(***************************************************************************)
SweepUpTo(n) == [k \in 1 .. n |-> IndexAt(k)]

LaunchCount ==
    (i - Start) \div Step + (IF pc \in {"wait", "cout"} THEN 1 ELSE 0)

C13_Reproducible ==
    /\ launched = SweepUpTo(LaunchCount)
    /\ (pc = "done" => launched = SweepUpTo(NumIndices))

\* main() has returned after failures of children and of the pointer file:
\* the launched sequence is the one of a run without failures.
C13_Witness ==
    /\ pc = "done" /\ childFailed /\ ioFailed /\ a # 0
    /\ launched = SweepUpTo(47)

(***************************************************************************)
(* C14.  When main() has returned after the sweep, system() has been       *)
(* called for every index in ascending order and the pointer file names    *)
(* the last index visited.                                                 *)
(***************************************************************************)
C14_FinalPointer ==
    pc = "done" /\ visited # <<>> =>
        /\ launched = visited
        /\ NamesIndex(disk, visited[Len(visited)])

C16_Terminates ==
    /\ <>(pc = "done")
    /\ [][i' # i => i' = i + Step /\ i' > i /\ i' <= 2147483647]_vars
    /\ [](Len(visited) <= 47 /\ i <= End + Step)

\* main() has returned after 47 iterations.
C16_Witness ==
    pc = "done" /\ Len(cout) = 47 /\ i = End + Step

(***************************************************************************)
(* C17.  The index i is printed when system() has returned for i and       *)
(* before the pointer file is opened for the next index: no child is       *)
(* alive at a print, a running child's index has not been printed, and     *)
(* the printed indices are the launched ones, in the same order, one       *)
(* line for each call of system().                                         *)
(***************************************************************************)
C17_PrintAfterChild ==
    /\ [](IF pc \in {"wait", "cout"}
            THEN launched = Append(cout, i)
            ELSE launched = cout)
    /\ [](\A k \in alive : \A j \in 1 .. Len(cout) : cout[j] # k)
    /\ [](pc \in {"open", "write", "close"} \/ file.open
             => Len(cout) = Len(visited) - 1 /\ cout = launched)
    /\ [][cout' # cout =>
            /\ alive = {} /\ ~file.open
            /\ launched # <<>> /\ launched[Len(launched)] = i
            /\ ev.idx = i /\ ev.kind \in {"exit", "write"}
            /\ cout' = Append(cout, i)]_vars

\* Two indices have been printed, after their children.
C17_Witness ==
    /\ cout = <<Start, Incr(Start)>>
    /\ launched = <<Start, Incr(Start)>>
    /\ ev = [kind |-> "exit", idx |-> Incr(Start)]

(***************************************************************************)
(* C18.  The stop request is never cleared once recorded, and from a       *)
(* SIGINT on, whether it came while a child ran or between iterations, no  *)
(* further child is launched.                                              *)
(***************************************************************************)
C18_StopPreventsLaunch ==
    /\ [][stop => stop']_vars
    /\ [][(stop \/ intrChild) => launched' = launched]_vars

====
